---- MODULE Spec2Model ----
(***************************************************************************)
(* Model of alpaca_kernel_2's load-time code:                              *)
(*   alpaca_kernel/_version.py  - the import of the version module         *)
(*   setup.py                   - one run of the packaging script          *)
(* A behaviour is one run of one of the two programs (prog).  Texts are    *)
(* sequences of one-character strings; an unbound Python name is None and  *)
(* a bound one is Some(value).                                             *)
(***************************************************************************)
EXTENDS Integers, Sequences, FiniteSets

VARIABLES
  prog,                          \* which script this run executes
  pc,                            \* position in the script
  handles,                       \* names of the files whose handle is open
  opens,                         \* how many times open() was called, per file
  files,                         \* content each read() returned, per file
  ret,                           \* value computed inside the current with block
  err,                           \* the exception raised, "none" while there is none
  __version__, match, version_info,
  kernel_protocol_version_info, kernel_protocol_version,
  long_description, version, install_requires,
  conda,                         \* what os.environ.get("CONDA_BUILD") returned
  setup_call                     \* the keyword arguments setup() was called with

vars == <<prog, pc, handles, opens, files, ret, err, __version__, match,
          version_info, kernel_protocol_version_info, kernel_protocol_version,
          long_description, version, install_requires, conda, setup_call>>

version_ns == <<__version__, match, version_info,
                kernel_protocol_version_info, kernel_protocol_version>>

setup_ns == <<long_description, version, install_requires, conda, setup_call>>

----------------------------------------------------------------------------
\* Bounds of the inputs.

\* Longest VERSION content read by _version.py.
MaxVersionLen == 7

\* Longest VERSION content read by setup.py (it is trimmed, never parsed).
MaxSetupLen == 3

\* Longest README.md content.
MaxReadmeLen == 1

\* Longest value of the CONDA_BUILD environment variable.
MaxEnvLen == 1

\* Characters of the input files: two digits, the dot, a letter, and the two
\* kinds of whitespace the pattern tells apart (a blank, a line break).
Alphabet == {"0", "1", ".", "x", " ", "\n"}

\* The texts of k characters.
Texts(k) == [1..k -> Alphabet]

EnvTexts == UNION {[1..k -> {"0", "1"}] : k \in 0..MaxEnvLen}

----------------------------------------------------------------------------
\* Python values.

None == <<>>

Some(v) == <<v>>

FileNames == {"README.md", "VERSION"}

\* str.strip() with no argument removes these from both ends.
Whitespace == {" ", "\t", "\n", "\r", "\f"}

Digits == {"0", "1", "2", "3", "4", "5", "6", "7", "8", "9"}

DigitChar(d) == <<"0", "1", "2", "3", "4", "5", "6", "7", "8", "9">>[d + 1]

DigitVal(c) == CHOOSE d \in 0..9 : DigitChar(d) = c

RECURSIVE LStrip(_)
LStrip(s) ==
  IF s # <<>> /\ Head(s) \in Whitespace THEN LStrip(Tail(s)) ELSE s

RECURSIVE RStrip(_)
RStrip(s) ==
  IF s # <<>> /\ s[Len(s)] \in Whitespace
  THEN RStrip(SubSeq(s, 1, Len(s) - 1))
  ELSE s

\* Faulty variant: rstrip() in place of strip().
StripTrailing(s) == RStrip(s)

Strip(s) == RStrip(LStrip(s))

\* Faulty variant: the digits weighted from the wrong end.
RECURSIVE IntOfReversed(_)
IntOfReversed(s) ==
  IF s = <<>> THEN 0 ELSE DigitVal(Head(s)) + 10 * IntOfReversed(Tail(s))

\* int(text) of a run of decimal digits.
RECURSIVE IntOf(_)
IntOf(s) ==
  IF s = <<>> THEN 0
  ELSE 10 * IntOf(SubSeq(s, 1, Len(s) - 1)) + DigitVal(s[Len(s)])

\* "{}".format(n) of a non-negative integer.
RECURSIVE Fmt(_)
Fmt(n) ==
  IF n < 10 THEN <<DigitChar(n)>> ELSE Fmt(n \div 10) \o <<DigitChar(n % 10)>>

----------------------------------------------------------------------------
\* re.match(pattern, text) for
\*   pattern = r"(?P<major>\d+).(?P<minor>\d+).(?P<patch>\d+)(?P<rest>.*)"
\* The match is anchored at the start of the text and need not reach its end.

\* \d+ from position i: the length of the longest run of digits.
RECURSIVE DigitRun(_, _)
DigitRun(s, i) ==
  IF i <= Len(s) /\ s[i] \in Digits THEN 1 + DigitRun(s, i + 1) ELSE 0

\* The unescaped "." : any one character but a line break.
AnyChar(s, i) == i >= 1 /\ i <= Len(s) /\ s[i] # "\n"

\* .* from position i: the length of the longest run without a line break.
RECURSIVE DotStar(_, _)
DotStar(s, i) ==
  IF i <= Len(s) /\ s[i] # "\n" THEN 1 + DotStar(s, i + 1) ELSE 0

\* The separators between the numeric groups.
Separator(s, i) == AnyChar(s, i)

\* Faulty variant: a lazy \d+? for the patch group.
PatchLenLazy(s, i) == IF DigitRun(s, i) >= 1 THEN 1 ELSE 0

\* The patch group is followed by .*, which matches anything, so the greedy
\* \d+ never gives a digit back.
PatchLen(s, i) == DigitRun(s, i)

\* Faulty variant: \S* for the rest group, which stops at a blank.
RECURSIVE RestLenNoBlank(_, _)
RestLenNoBlank(s, i) ==
  IF i <= Len(s) /\ s[i] \notin Whitespace
  THEN 1 + RestLenNoBlank(s, i + 1)
  ELSE 0

RestLen(s, i) == DotStar(s, i)

\* The lengths <<a, b>> of major and minor with which the whole pattern matches.
MatchCandidates(s) ==
  {m \in (1..DigitRun(s, 1)) \X (1..Len(s)) :
      /\ Separator(s, m[1] + 1)
      /\ m[2] <= DigitRun(s, m[1] + 2)
      /\ Separator(s, m[1] + m[2] + 2)
      /\ DigitRun(s, m[1] + m[2] + 3) >= 1}

\* Backtracking tries the longest major first, and for it the longest minor.
ReMatch(s) ==
  LET cands == MatchCandidates(s) IN
  IF cands = {} THEN None
  ELSE
    LET m == CHOOSE x \in cands : \A o \in cands :
                 o[1] < x[1] \/ (o[1] = x[1] /\ o[2] <= x[2])
        a == m[1]
        b == m[2]
        c == PatchLen(s, a + b + 3)
        r == RestLen(s, a + b + c + 3)
    IN Some([major |-> SubSeq(s, 1, a),
             minor |-> SubSeq(s, a + 2, a + b + 1),
             patch |-> SubSeq(s, a + b + 3, a + b + c + 2),
             rest  |-> SubSeq(s, a + b + c + 3, a + b + c + r + 2)])

\* Faulty variant: the rest group appended even when it is empty.
VersionInfoAlwaysRest(m) ==
  <<IntOf(m.major), IntOf(m.minor), IntOf(m.patch), m.rest>>

\* parts = [int(match[part]) for part in ["major", "minor", "patch"]];
\* if match["rest"]: parts.append(match["rest"]); tuple(parts)
VersionInfoOf(m) ==
  LET parts == <<IntOf(m.major), IntOf(m.minor), IntOf(m.patch)>> IN
  IF m.rest # <<>> THEN Append(parts, m.rest) ELSE parts

\* Faulty variant: the protocol version taken from the package version.
KernelProtocolVersionFromPackage == <<version_info[1][1], version_info[1][2]>>

KernelProtocolVersionInfo == <<5, 3>>

\* "{}.{}".format(*kernel_protocol_version_info)
KernelProtocolVersion(info) == Fmt(info[1]) \o <<".">> \o Fmt(info[2])

----------------------------------------------------------------------------
\* setup.py values.

InstallRequires == <<"matplotlib", "numpy", "pyserial">>

\* Truth value of os.environ.get("CONDA_BUILD"): None and "" are false.
Truthy(e) == e # None /\ e[1] # <<>>

EnvValues == {None} \cup {Some(t) : t \in EnvTexts}

----------------------------------------------------------------------------
Init ==
  /\ prog \in {"version", "setup"}
  /\ pc = "start"
  /\ handles = {}
  /\ opens = [f \in FileNames |-> 0]
  /\ files = [f \in FileNames |-> None]
  /\ ret = None
  /\ err = "none"
  /\ __version__ = None
  /\ match = None
  /\ version_info = None
  /\ kernel_protocol_version_info = None
  /\ kernel_protocol_version = None
  /\ long_description = None
  /\ version = None
  /\ install_requires = None
  /\ conda = None
  /\ setup_call = None

\* open(f) succeeds: the with block is entered holding the handle.
OpenOk(f, at, next) ==
  /\ pc = at
  /\ handles' = handles \cup {f}
  /\ opens' = [opens EXCEPT ![f] = @ + 1]
  /\ pc' = next
  /\ UNCHANGED <<prog, files, ret, err, version_ns, setup_ns>>

\* open(f) raises (the file is missing or unreadable): the script ends.
OpenFails(f, at) ==
  /\ pc = at
  /\ opens' = [opens EXCEPT ![f] = @ + 1]
  /\ err' = "OSError"
  /\ pc' = "failed"
  /\ UNCHANGED <<prog, handles, files, ret, version_ns, setup_ns>>

\* The body of the with block reads the file and computes its value:
\* f.read().strip() for VERSION (strip), fh.read() for README.md.
ReadOk(f, maxLen, at, next, strip) ==
  /\ pc = at
  /\ \E k \in 0..maxLen : \E d \in Texts(k) :
       /\ files' = [files EXCEPT ![f] = Some(d)]
       /\ ret' = Some(IF strip THEN Strip(d) ELSE d)
  /\ pc' = next
  /\ UNCHANGED <<prog, handles, opens, err, version_ns, setup_ns>>

\* read() raises inside the with block: the exception starts to unwind.
ReadFails(f, at, next) ==
  /\ pc = at
  /\ err' = "OSError"
  /\ pc' = next
  /\ UNCHANGED <<prog, handles, opens, files, ret, version_ns, setup_ns>>

\* Faulty variant: the handle closed on the normal path only (no with block).
HandlesLeakOnError(f) == IF err = "none" THEN handles \ {f} ELSE handles

\* Handles left open when the with block of f is left.
HandlesAfterExit(f) == handles \ {f}

\* Faulty variant: the exception swallowed, the script going on.
AfterExitSwallow(next) == next

\* Where control goes when a with block is left: on, or out with the exception.
AfterExit(next) == IF err = "none" THEN next ELSE "failed"

----------------------------------------------------------------------------
\* _version.py

VOpen == prog = "version" /\ OpenOk("VERSION", "start", "v_read")

VOpenFails == prog = "version" /\ OpenFails("VERSION", "start")

VRead ==
  /\ prog = "version"
  /\ ReadOk("VERSION", MaxVersionLen, "v_read", "v_exit", TRUE)

VReadFails == prog = "version" /\ ReadFails("VERSION", "v_read", "v_exit")

\* Leaving _get_version: the handle is closed, then __version__ is bound.
VExit ==
  /\ prog = "version"
  /\ pc = "v_exit"
  /\ handles' = HandlesAfterExit("VERSION")
  /\ pc' = AfterExit("v_match")
  /\ __version__' = IF err = "none" THEN ret ELSE __version__
  /\ ret' = None
  /\ UNCHANGED <<prog, opens, files, err, match, version_info,
                 kernel_protocol_version_info, kernel_protocol_version,
                 setup_ns>>

\* match = re.match(pattern, __version__); assert match is not None
VMatch ==
  /\ prog = "version"
  /\ pc = "v_match"
  /\ match' = ReMatch(__version__[1])
  /\ IF match' = None
     THEN err' = "AssertionError" /\ pc' = "failed"
     ELSE err' = err /\ pc' = "v_info"
  /\ UNCHANGED <<prog, handles, opens, files, ret, __version__, version_info,
                 kernel_protocol_version_info, kernel_protocol_version,
                 setup_ns>>

VInfo ==
  /\ prog = "version"
  /\ pc = "v_info"
  /\ version_info' = Some(VersionInfoOf(match[1]))
  /\ pc' = "v_protocol"
  /\ UNCHANGED <<prog, handles, opens, files, ret, err, __version__, match,
                 kernel_protocol_version_info, kernel_protocol_version,
                 setup_ns>>

VProtocol ==
  /\ prog = "version"
  /\ pc = "v_protocol"
  /\ kernel_protocol_version_info' = Some(KernelProtocolVersionInfo)
  /\ kernel_protocol_version' =
       Some(KernelProtocolVersion(KernelProtocolVersionInfo))
  /\ pc' = "done"
  /\ UNCHANGED <<prog, handles, opens, files, ret, err, __version__, match,
                 version_info, setup_ns>>

----------------------------------------------------------------------------
\* setup.py

SOpenReadme == prog = "setup" /\ OpenOk("README.md", "start", "s_read_readme")

SOpenReadmeFails == prog = "setup" /\ OpenFails("README.md", "start")

SReadReadme ==
  /\ prog = "setup"
  /\ ReadOk("README.md", MaxReadmeLen, "s_read_readme",
            "s_exit_readme", FALSE)

SReadReadmeFails ==
  prog = "setup" /\ ReadFails("README.md", "s_read_readme", "s_exit_readme")

SExitReadme ==
  /\ prog = "setup"
  /\ pc = "s_exit_readme"
  /\ handles' = HandlesAfterExit("README.md")
  /\ pc' = AfterExit("s_open_version")
  /\ long_description' = IF err = "none" THEN ret ELSE long_description
  /\ ret' = None
  /\ UNCHANGED <<prog, opens, files, err, version_ns, version,
                 install_requires, conda, setup_call>>

SOpenVersion ==
  prog = "setup" /\ OpenOk("VERSION", "s_open_version", "s_read_version")

SOpenVersionFails == prog = "setup" /\ OpenFails("VERSION", "s_open_version")

SReadVersion ==
  /\ prog = "setup"
  /\ ReadOk("VERSION", MaxSetupLen, "s_read_version",
            "s_exit_version", TRUE)

SReadVersionFails ==
  prog = "setup" /\ ReadFails("VERSION", "s_read_version", "s_exit_version")

SExitVersion ==
  /\ prog = "setup"
  /\ pc = "s_exit_version"
  /\ handles' = HandlesAfterExit("VERSION")
  /\ pc' = AfterExit("s_requires")
  /\ version' = IF err = "none" THEN ret ELSE version
  /\ ret' = None
  /\ UNCHANGED <<prog, opens, files, err, version_ns, long_description,
                 install_requires, conda, setup_call>>

SRequires ==
  /\ prog = "setup"
  /\ pc = "s_requires"
  /\ install_requires' = Some(InstallRequires)
  /\ pc' = "s_env"
  /\ UNCHANGED <<prog, handles, opens, files, ret, err, version_ns,
                 long_description, version, conda, setup_call>>

\* Faulty variant: the test is "is set" (is not None) instead of truthiness.
RequiresUnderAnySet(e, current) == IF e # None THEN <<>> ELSE current

\* The list setup() gets, given what os.environ.get("CONDA_BUILD") returned.
RequiresUnder(e, current) == IF Truthy(e) THEN <<>> ELSE current

\* if os.environ.get("CONDA_BUILD"): install_requires = []
SCondaBuild ==
  /\ prog = "setup"
  /\ pc = "s_env"
  /\ \E e \in EnvValues :
       /\ conda' = e
       /\ install_requires' = Some(RequiresUnder(e, install_requires[1]))
  /\ pc' = "s_setup"
  /\ UNCHANGED <<prog, handles, opens, files, ret, err, version_ns,
                 long_description, version, setup_call>>

SSetup ==
  /\ prog = "setup"
  /\ pc = "s_setup"
  /\ setup_call' = Some([version |-> version[1],
                         long_description |-> long_description[1],
                         install_requires |-> install_requires[1]])
  /\ pc' = "done"
  /\ UNCHANGED <<prog, handles, opens, files, ret, err, version_ns,
                 long_description, version, install_requires, conda>>

----------------------------------------------------------------------------
Next ==
  \/ VOpen \/ VOpenFails \/ VRead \/ VReadFails \/ VExit
  \/ VMatch \/ VInfo \/ VProtocol
  \/ SOpenReadme \/ SOpenReadmeFails \/ SReadReadme \/ SReadReadmeFails
  \/ SExitReadme
  \/ SOpenVersion \/ SOpenVersionFails \/ SReadVersion \/ SReadVersionFails
  \/ SExitVersion
  \/ SRequires \/ SCondaBuild \/ SSetup

Spec == Init /\ [][Next]_vars

----------------------------------------------------------------------------
\* Vocabulary of the properties.

Terminal == pc \in {"done", "failed"}

AllDigits(s, i, j) == \A k \in i..j : s[k] \in Digits

\* A numeral without its leading zeros (one digit at least is kept).
RECURSIVE Canon(_)
Canon(seg) ==
  IF Len(seg) > 1 /\ Head(seg) = "0" THEN Canon(Tail(seg)) ELSE seg

\* The text up to its first line break.
RECURSIVE FirstLine(_)
FirstLine(s) ==
  IF s = <<>> \/ Head(s) = "\n" THEN <<>> ELSE <<Head(s)>> \o FirstLine(Tail(s))

\* The readings <<a, b, c, suffix>> of s as "{a}.{b}.{c}{suffix}": three
\* numerals separated by literal dots, then a suffix that does not begin with
\* a digit.  A text has one reading at most.
DottedReadings(s) ==
  UNION {
    UNION {
      {<<SubSeq(s, 1, a), SubSeq(s, a + 2, a + b + 1),
         SubSeq(s, a + b + 3, a + b + c + 2), SubSeq(s, a + b + c + 3, Len(s))>> :
         c \in {z \in 1..Len(s) :
                  /\ a + b + z + 2 <= Len(s)
                  /\ AllDigits(s, a + b + 3, a + b + z + 2)
                  /\ (a + b + z + 3 <= Len(s) =>
                        s[a + b + z + 3] \notin Digits)}} :
      b \in {y \in 1..Len(s) :
               /\ a + y + 2 <= Len(s)
               /\ s[a + y + 2] = "."
               /\ AllDigits(s, a + 2, a + y + 1)}} :
    a \in {x \in 1..Len(s) :
             x + 1 <= Len(s) /\ s[x + 1] = "." /\ AllDigits(s, 1, x)}}

\* The text begins with digits, a literal dot, digits, a literal dot, a digit.
StrictShape(s) ==
  \E a \in 1..Len(s) :
    /\ a + 1 <= Len(s) /\ s[a + 1] = "." /\ AllDigits(s, 1, a)
    /\ \E b \in 1..Len(s) :
         /\ a + b + 3 <= Len(s) /\ s[a + b + 2] = "."
         /\ AllDigits(s, a + 2, a + b + 1)
         /\ s[a + b + 3] \in Digits

\* The load of the version module ended with version_info = (a, b, c), the
\* numbers written by the three numerals.
ResolvedTo3(sa, sb, sc) ==
  /\ pc = "done"
  /\ version_info # None
  /\ Len(version_info[1]) = 3
  /\ \A k \in 1..3 : version_info[1][k] \in Nat
  /\ Fmt(version_info[1][1]) = Canon(sa)
  /\ Fmt(version_info[1][2]) = Canon(sb)
  /\ Fmt(version_info[1][3]) = Canon(sc)

\* ... with version_info = (a, b, c, suffix).
ResolvedTo4(sa, sb, sc, suffix) ==
  /\ pc = "done"
  /\ version_info # None
  /\ Len(version_info[1]) = 4
  /\ \A k \in 1..3 : version_info[1][k] \in Nat
  /\ Fmt(version_info[1][1]) = Canon(sa)
  /\ Fmt(version_info[1][2]) = Canon(sb)
  /\ Fmt(version_info[1][3]) = Canon(sc)
  /\ version_info[1][4] = suffix

\* The version module's load has ended, the VERSION text having been read.
VersionLoadEnded == prog = "version" /\ Terminal /\ __version__ # None

----------------------------------------------------------------------------
\* C1: every trimmed VERSION text that does not begin with three runs of
\* digits separated by literal dots makes the load halt at the assertion, and
\* no version_info is produced.
C1_NoShapeNoVersionInfo ==
  (prog = "version" /\ __version__ # None /\ ~StrictShape(__version__[1])) =>
    (version_info = None /\ pc \in {"v_match", "failed"})

\* C2: a VERSION text "{a}.{b}.{c}" with nothing after c resolves to exactly
\* the 3-tuple of integers (a, b, c).
C2_ThreeNumbers ==
  VersionLoadEnded =>
    \A r \in DottedReadings(__version__[1]) :
      r[4] = <<>> => ResolvedTo3(r[1], r[2], r[3])

C2_Witness ==
  /\ pc = "done"
  /\ __version__ = Some(<<"1", "0", ".", "0", ".", "1", "1">>)
  /\ version_info = Some(<<10, 0, 11>>)

\* C3 as stated: a VERSION text "{a}.{b}.{c}{s}" with a non-empty suffix s
\* that does not begin with a digit resolves to exactly (a, b, c, s).
C3_Original ==
  VersionLoadEnded =>
    \A r \in DottedReadings(__version__[1]) :
      r[4] # <<>> => ResolvedTo4(r[1], r[2], r[3], r[4])

\* C3 amended: ... with a non-empty suffix s that does not begin with a
\* digit and holds no line break resolves to exactly (a, b, c, s).
C3_SuffixKept ==
  VersionLoadEnded =>
    \A r \in DottedReadings(__version__[1]) :
      (r[4] # <<>> /\ \A k \in 1..Len(r[4]) : r[4][k] # "\n") =>
        ResolvedTo4(r[1], r[2], r[3], r[4])

C3_Witness ==
  /\ pc = "done"
  /\ __version__ = Some(<<"0", ".", "1", ".", "0", " ", "x">>)
  /\ version_info = Some(<<0, 1, 0, <<" ", "x">>>>)

\* C4 as stated: whatever the VERSION file holds, once the load has ended the
\* module exposes kernel_protocol_version_info = (5, 3) and
\* kernel_protocol_version = "5.3".
C4_Original ==
  (prog = "version" /\ Terminal /\ files["VERSION"] # None) =>
    /\ kernel_protocol_version_info = Some(<<5, 3>>)
    /\ kernel_protocol_version = Some(<<"5", ".", "3">>)

\* C4 amended: whatever the VERSION file holds, a load that completes exposes
\* (5, 3) and "5.3", the two constants never have another value, and a load
\* that fails leaves both unbound.
C4_ProtocolConstants ==
  prog = "version" =>
    /\ pc = "done" =>
         /\ kernel_protocol_version_info = Some(<<5, 3>>)
         /\ kernel_protocol_version = Some(<<"5", ".", "3">>)
    /\ kernel_protocol_version_info # None =>
         kernel_protocol_version_info = Some(<<5, 3>>)
    /\ kernel_protocol_version # None =>
         kernel_protocol_version = Some(<<"5", ".", "3">>)
    /\ pc = "failed" =>
         kernel_protocol_version_info = None /\ kernel_protocol_version = None

C4_Witness ==
  /\ pc = "done"
  /\ version_info = Some(<<1, 0, 0, <<"x">>>>)
  /\ kernel_protocol_version_info = Some(<<5, 3>>)
  /\ kernel_protocol_version = Some(<<"5", ".", "3">>)

\* C5 as stated: setup() gets an empty dependency list when CONDA_BUILD is
\* set, and the three fixed items when it is unset.
C5_Original ==
  setup_call # None =>
    /\ conda # None => setup_call[1].install_requires = <<>>
    /\ conda = None =>
         setup_call[1].install_requires = <<"matplotlib", "numpy", "pyserial">>

\* C5 amended: setup() gets an empty dependency list when CONDA_BUILD is set
\* to a non-empty value, and the three fixed items when it is unset or set to
\* the empty string.
C5_Requires ==
  setup_call # None =>
    setup_call[1].install_requires =
      IF conda # None /\ Len(conda[1]) > 0
      THEN <<>>
      ELSE <<"matplotlib", "numpy", "pyserial">>

C5_Witness ==
  /\ setup_call # None
  /\ conda = Some(<<"0">>)
  /\ setup_call[1].install_requires = <<>>

\* v is d without its leading and trailing whitespace, otherwise unaltered.
IsTrimOf(v, d) ==
  \E i \in 0..Len(d) : \E j \in 0..(Len(d) - i) :
    /\ \A k \in 1..i : d[k] \in Whitespace
    /\ \A k \in (Len(d) - j + 1)..Len(d) : d[k] \in Whitespace
    /\ v = SubSeq(d, i + 1, Len(d) - j)
    /\ v # <<>> => (v[1] \notin Whitespace /\ v[Len(v)] \notin Whitespace)

\* C6: once VERSION has been read, __version__ (in _version.py) and the
\* version passed to setup() (in setup.py) are the file's content without its
\* leading and trailing whitespace, and nothing else is altered.
C6_SameTrimmedVersion ==
  /\ (prog = "version" /\ files["VERSION"] # None /\ pc # "v_exit") =>
       (__version__ # None /\ IsTrimOf(__version__[1], files["VERSION"][1]))
  /\ (prog = "setup" /\ files["VERSION"] # None /\ pc # "s_exit_version") =>
       (version # None /\ IsTrimOf(version[1], files["VERSION"][1]))
  /\ (prog = "setup" /\ pc = "done") =>
       (setup_call # None
          /\ IsTrimOf(setup_call[1].version, files["VERSION"][1]))

C6_Witness ==
  /\ prog = "version"
  /\ pc = "done"
  /\ files["VERSION"] = Some(<<"\n", " ", "1", ".", "0", ".", "1">>)
  /\ __version__ = Some(<<"1", ".", "0", ".", "1">>)

\* C7: at most one file handle is open at any moment, the only open handle
\* is that of the file being read, and none is open while the version text is
\* parsed, while setup.py goes on, or when the load has ended in success, in
\* a read error or in the assertion failure.
C7_HandlesReleased ==
  /\ Cardinality(handles) <= 1
  /\ pc \in {"v_read", "v_exit", "s_read_version", "s_exit_version"} =>
       handles = {"VERSION"}
  /\ pc \in {"s_read_readme", "s_exit_readme"} => handles = {"README.md"}
  /\ pc \in {"start", "v_match", "v_info", "v_protocol", "s_open_version",
             "s_requires", "s_env", "s_setup", "done", "failed"} =>
       handles = {}

C7_Witness ==
  /\ prog = "setup"
  /\ pc = "failed"
  /\ err = "OSError"
  /\ opens = [f \in FileNames |-> 1]
  /\ files["README.md"] # None
  /\ files["VERSION"] = None
  /\ handles = {}

\* C8: no file is opened twice; once an open or a read has failed the script
\* only unwinds: setup() is not called, VERSION is not opened after README.md
\* failed, and __version__ and version_info stay unbound, no default standing
\* in for them.
C8_NoRetryNoFallback ==
  /\ \A f \in FileNames : opens[f] <= 1
  /\ setup_call # None =>
       (err = "none" /\ \A f \in FileNames : files[f] # None)
  /\ err = "OSError" =>
       /\ pc \in {"v_exit", "s_exit_readme", "s_exit_version", "failed"}
       /\ setup_call = None
       /\ __version__ = None
       /\ version_info = None
       /\ prog = "setup" => version = None
  /\ (prog = "setup" /\ long_description = None) => opens["VERSION"] = 0

C8_Witness ==
  /\ prog = "setup"
  /\ pc = "failed"
  /\ err = "OSError"
  /\ opens = [f \in FileNames |-> IF f = "README.md" THEN 1 ELSE 0]
  /\ handles = {}
  /\ setup_call = None

\* The text that follows the patch number in the matched VERSION text.
AfterPatch ==
  SubSeq(__version__[1],
         Len(match[1].major) + Len(match[1].minor) + Len(match[1].patch) + 3,
         Len(__version__[1]))

\* C9 as stated: a resolved version_info has 3 or 4 elements, the first three
\* non-negative integers, and a fourth element exactly when the text after the
\* patch number is non-empty, that element being this text.
C9_Original ==
  version_info # None =>
    LET vi == version_info[1] IN
    /\ Len(vi) \in {3, 4}
    /\ \A k \in 1..3 : vi[k] \in Nat
    /\ Len(vi) = 4 <=> AfterPatch # <<>>
    /\ Len(vi) = 4 => (vi[4] = AfterPatch /\ vi[4] # <<>>)

\* C9 amended: ... and a fourth element exactly when the text after the patch
\* number up to the first line break is non-empty, that element being this
\* text.
C9_Shape ==
  version_info # None =>
    LET vi == version_info[1] IN
    /\ Len(vi) \in {3, 4}
    /\ \A k \in 1..3 : vi[k] \in Nat
    /\ Len(vi) = 4 <=> FirstLine(AfterPatch) # <<>>
    /\ Len(vi) = 4 => (vi[4] = FirstLine(AfterPatch) /\ vi[4] # <<>>)

C9_Witness ==
  /\ pc = "done"
  /\ __version__ = Some(<<"1", ".", "0", ".", "1", "\n", "x">>)
  /\ version_info = Some(<<1, 0, 1>>)

\* C10: the patch number takes every digit that follows the second separator:
\* the text after it does not begin with a digit, so a fourth element of
\* version_info never begins with a digit.
C10_SuffixNotDigit ==
  version_info # None =>
    /\ AfterPatch # <<>> => AfterPatch[1] \notin Digits
    /\ Len(version_info[1]) = 4 => version_info[1][4][1] \notin Digits

C10_Witness ==
  /\ pc = "done"
  /\ __version__ = Some(<<"1", ".", "0", ".", "1", "1", "x">>)
  /\ version_info = Some(<<1, 0, 11, <<"x">>>>)

====
